---- MODULE Spec2Model ----
(***************************************************************************)
(* Model of the task bot in src/main.py: the in-memory store `db`, the     *)
(* per-user pending assignment flows ASSIGN_STATE, the aiogram handlers    *)
(* (cb_assign, cb_set_chat, on_user_shared, on_task_text) and the daily    *)
(* reminder job send_daily_reminders.                                      *)
(*                                                                         *)
(* Handlers are coroutines: a handler runs without interruption from its   *)
(* entry to its first await that touches the network, and again between    *)
(* awaits.  A handler is split into steps exactly where it reads or writes *)
(* db or ASSIGN_STATE on both sides of an await; consecutive awaits that   *)
(* only send or delete messages are resolved in one step, each with its    *)
(* own nondeterministic outcome, in program order.                         *)
(*                                                                         *)
(* None, an absent dict entry and 0 are all written 0: Python's truth      *)
(* tests in the handlers (`not state`, `not state.get("assignee_id")`,     *)
(* `not target_chat_id`) treat them alike.                                 *)
(***************************************************************************)
EXTENDS Integers, Sequences, FiniteSets, TLC

\* ------------------------------------------------------------- bounds
MaxTasks == 1      \* Spec: tasks the store may hold
MaxInflight == 1   \* Spec: handler coroutines that may be suspended at once
MaxLen == 2        \* length of an inbound message text
MaxDigest == 2     \* SpecRemind: tasks the store may hold
MaxTicks == 1      \* SpecRemind: hours the clock may advance after start-up
MaxFlowTasks == 2  \* SpecFlows: tasks the store may hold

Users == {1, 2}                 \* Telegram user ids (a private chat has its user's id)
Groups == {-100}                \* group chat ids
Chats == Groups \cup Users
Chars == {" ", "a"}
NoText == <<"None">>            \* Message.text of a message without text

\* --------------------------------------------------------------- state
VARIABLES
    db,            \* the in-memory store: [users, user_prefs]
    ASSIGN_STATE,  \* user id -> pending flow (chat_id = 0: no entry)
    handlers,      \* the suspended handler coroutines
    run,           \* the reminder job's coroutine
    now,           \* wall clock, hours since Monday 00:00 UTC
    boot,          \* the clock at start-up
    last           \* what the step just taken sent, deleted and how it ended

vars == <<db, ASSIGN_STATE, handlers, run, now, boot, last>>

\* ------------------------------------------------------- pure helpers
RECURSIVE lstrip(_)
lstrip(s) == IF s # << >> /\ Head(s) = " " THEN lstrip(Tail(s)) ELSE s

RECURSIVE rstrip(_)
rstrip(s) ==
    IF s # << >> /\ s[Len(s)] = " " THEN rstrip(SubSeq(s, 1, Len(s) - 1)) ELSE s

\* a trim of the leading whitespace only
lstrip_only(s) == lstrip(s)

\* str.strip()
strip(s) == rstrip(lstrip(s))

RECURSIVE SeqsUpTo(_)
SeqsUpTo(n) ==
    IF n = 0 THEN {<< >>}
    ELSE LET shorter == SeqsUpTo(n - 1)
         IN shorter \cup {Append(s, c) : s \in {t \in shorter : Len(t) = n - 1}, c \in Chars}

\* Message.text of an inbound message: a non-empty string, or None
Texts == (SeqsUpTo(MaxLen) \ {<< >>}) \cup {NoText}


\* ------------------------------------------------------------ the clock
\* Europe/Stockholm in a winter week: CET, one hour ahead of UTC
UtcOffset == 1

\* the weekday of the host's clock (UTC) instead of the configured zone's
weekday_host(t) == (t \div 24) % 7

\* datetime.now(TZ).weekday(): 0 = Monday .. 6 = Sunday, in the configured zone
weekday(t) == ((t + UtcOffset) \div 24) % 7

\* Start-up instants: Monday 10:00 UTC, Friday 22:00 UTC (23:00 in Stockholm),
\* Saturday 22:00 UTC and Sunday 22:00 UTC (23:00 in Stockholm); one tick
\* later Stockholm is a day ahead of UTC
BootHours == {10, 4 * 24 + 22, 5 * 24 + 22, 6 * 24 + 22}

\* --------------------------------------------------------------- store
Task(text, by, chat, ts, done) ==
    [text |-> text, by |-> by, chat |-> chat, ts |-> ts, done |-> done]

UserIds(d) == {d.users[i].id : i \in 1..Len(d.users)}

UserIndex(d, uid) == CHOOSE i \in 1..Len(d.users) : d.users[i].id = uid

\* db.get("users", {}).get(str(user_id), {"tasks": []})["tasks"]
TasksOf(d, uid) ==
    IF uid \in UserIds(d) THEN d.users[UserIndex(d, uid)].tasks ELSE << >>

TotalTasks(d) ==
    LET RECURSIVE Sum(_)
        Sum(i) == IF i = 0 THEN 0 ELSE Len(d.users[i].tasks) + Sum(i - 1)
    IN Sum(Len(d.users))

\* add_task writing a fresh list instead of appending to the stored one
add_task_overwrite(d, assignee_id, text, by_user_id, chat_id, ts) ==
    LET t == Task(text, by_user_id, chat_id, ts, FALSE)
    IN IF assignee_id \in UserIds(d)
       THEN [d EXCEPT !.users[UserIndex(d, assignee_id)].tasks = <<t>>]
       ELSE [d EXCEPT !.users = Append(@, [id |-> assignee_id, tasks |-> <<t>>])]

\* add_task, up to save_db: setdefault of the user's entry, then append
add_task(d, assignee_id, text, by_user_id, chat_id, ts) ==
    LET t == Task(text, by_user_id, chat_id, ts, FALSE)
    IN IF assignee_id \in UserIds(d)
       THEN [d EXCEPT !.users[UserIndex(d, assignee_id)].tasks = Append(@, t)]
       ELSE [d EXCEPT !.users = Append(@, [id |-> assignee_id, tasks |-> <<t>>])]

\* the listing without its filter on "done"
all_tasks(d, user_id) == TasksOf(d, user_id)

get_active_tasks(d, user_id) ==
    SelectSeq(TasksOf(d, user_id), LAMBDA t : ~t.done)

\* what load_db may return at start-up: a tasks.json of at most n tasks left
\* by earlier runs (ts = 0: written earlier in the week)
StoredTasks == {Task(text, 1, -100, 0, done) : text \in {<<"a">>, <<"a", "a">>},
                                                done \in BOOLEAN}

StoredLists(n) == UNION {[1..k -> StoredTasks] : k \in 1..n}

StoredUsers(n) ==
    {<< >>}
    \cup {<<[id |-> u, tasks |-> l]>> : u \in Users, l \in StoredLists(n)}
    \cup {x \in {<<[id |-> u, tasks |-> l], [id |-> v, tasks |-> m]>> :
                    u \in Users, v \in Users,
                    l \in StoredLists(n), m \in StoredLists(n)} : x[1].id # x[2].id}

\* db["groups"][chat]["members"]: the ids on a chat's roster
Rosters == [Groups -> SUBSET Users]

load_db(n) ==
    {[users |-> us, user_prefs |-> [u \in Users |-> 0], groups |-> [g \in Groups |-> {}]] :
        us \in {x \in StoredUsers(n) : TotalTasks([users |-> x]) <= n}}

\* --------------------------------------------------- flows and handlers
NoFlow == [chat_id |-> 0, assignee_id |-> 0]

\* a suspended handler: its message's sender and chat, and its locals.
\* `live`: the dict it read from ASSIGN_STATE is still the sender's entry
Handler(h, u, chat, target, assignee) ==
    [h |-> h, u |-> u, chat |-> chat, target |-> target, assignee |-> assignee,
     live |-> TRUE]

\* ASSIGN_STATE[u] is replaced or popped: the handlers of u that hold the old
\* dict now hold a dict nobody else reads
Detach(hs, u) ==
    {IF r.u = u THEN [r EXCEPT !.live = FALSE] ELSE r : r \in hs}

NoRun == [active |-> FALSE, cur |-> 0, lines |-> << >>, rest |-> << >>,
          log |-> << >>, at |-> 0, open |-> << >>]

Nothing ==
    [h |-> "none", u |-> 0, chat |-> 0, path |-> "none", exit |-> "none",
     sent |-> << >>, del |-> "none", assignee |-> 0, before |-> 0,
     text |-> << >>, subject |-> 0, status |-> "none",
     log |-> << >>, at |-> 0, open |-> << >>]

\* what a step of handler h did: the sends it awaited (in order, with their
\* outcomes), the deletion it requested of its own message, how it ended
Eff(h, u, chat, path, exit, sent, del) ==
    [Nothing EXCEPT !.h = h, !.u = u, !.chat = chat, !.path = path,
                    !.exit = exit, !.sent = sent, !.del = del]

Msg(to, kind, ok) == [to |-> to, kind |-> kind, ok |-> ok]

Outcome(ok) == IF ok THEN "ok" ELSE "failed"

\* sends none of which is guarded by try/except: the send numbered `fail`
\* raises and the later ones are never made (fail = 0: all succeed)
Unguarded(msgs, fail) ==
    [i \in 1..(IF fail = 0 THEN Len(msgs) ELSE fail) |->
        Msg(msgs[i][1], msgs[i][2], i # fail)]

Exit(fail) == IF fail = 0 THEN "return" ELSE "raise"

\* the lookup with one entry shared by every sender
shared_flow(u) == ASSIGN_STATE[CHOOSE v \in Users : \A w \in Users : v <= w]

\* ASSIGN_STATE.get(m.from_user.id): the pending flow of the message's sender
flow_of_sender(u) == ASSIGN_STATE[u]

\* ------------------------------------------------------- menu callbacks
\* the private branch without its check
NeverNeedsChatChoice(target_chat_id) == FALSE

\* cb_assign, private chat: `if not target_chat_id`
NeedsChatChoice(target_chat_id) == target_chat_id = 0

\* cb_assign: the target chat of a press in chat `chat`
TargetChat(u, chat) == IF chat \in Groups THEN chat ELSE db.user_prefs[u]

\* cb_assign in a private chat before a working chat was chosen
cb_assign_rejected(u, chat, fail) ==
    /\ chat \notin Groups
    /\ NeedsChatChoice(TargetChat(u, chat))
    /\ last' = Eff("cb_assign", u, chat, "rejected", Exit(fail),
                   Unguarded(<< <<u, "choose_chat_alert">>,
                                <<chat, "choose_chat_menu">> >>, fail), "none")
    /\ UNCHANGED <<db, ASSIGN_STATE, handlers, run, now, boot>>

CbAssignRejected ==
    \E u \in Users, fail \in 0..2 : cb_assign_rejected(u, u, fail)

\* cb_assign: the flow is (re)started before the first await; the awaits that
\* follow touch no state
cb_assign(u, chat, fail) ==
    /\ ~(chat \notin Groups /\ NeedsChatChoice(TargetChat(u, chat)))
    /\ ASSIGN_STATE' = [ASSIGN_STATE EXCEPT ![u] =
                           [chat_id |-> TargetChat(u, chat), assignee_id |-> 0]]
    /\ handlers' = Detach(handlers, u)
    /\ last' = Eff("cb_assign", u, chat, "started", Exit(fail),
                   Unguarded(<< <<u, "picking_popup">>,
                                <<chat, "pick_assignee">> >>, fail), "none")
    /\ UNCHANGED <<db, run, now, boot>>

CbAssign ==
    \E u \in Users, chat \in Chats, fail \in 0..2 :
        /\ chat \in Groups \cup {u}
        /\ cb_assign(u, chat, fail)

\* cb_set_chat: the preference is set in memory, then save_db (fail = 1: it
\* raises), then two sends
cb_set_chat(u, chat_id, fail) ==
    /\ db' = [db EXCEPT !.user_prefs[u] = chat_id]
    /\ last' = Eff("cb_set_chat", u, u, "set", Exit(fail),
                   IF fail = 1 THEN << >>
                   ELSE Unguarded(<< <<u, "chat_chosen_menu">>,
                                     <<u, "chat_chosen_popup">> >>,
                                  IF fail = 0 THEN 0 ELSE fail - 1), "none")
    /\ UNCHANGED <<ASSIGN_STATE, handlers, run, now, boot>>

CbSetChat ==
    \E u \in Users, chat_id \in Groups, fail \in 0..3 : cb_set_chat(u, chat_id, fail)

\* ---------------------------------------------------------- user picker
\* is_chat_member: the status get_chat_member reports ("error": it raised)
Statuses == {"creator", "administrator", "member", "restricted", "left", "kicked", "error"}

\* the lookup taking any status it gets as membership
is_known_status(status) == status # "error"

is_chat_member(status) == status \in {"creator", "administrator", "member"}

\* on_user_shared outside a flow: the answer goes to the chat of the message
user_shared_no_flow(u, chat, ansOk, delOk) ==
    /\ flow_of_sender(u).chat_id = 0
    /\ last' = Eff("on_user_shared", u, chat, "no_flow", Exit(IF ansOk THEN 0 ELSE 1),
                   <<Msg(chat, "out_of_context", ansOk)>>,
                   IF ansOk THEN Outcome(delOk) ELSE "none")
    /\ UNCHANGED <<db, ASSIGN_STATE, handlers, run, now, boot>>

UserSharedNoFlow ==
    \E u \in Users, chat \in Chats, ansOk \in BOOLEAN, delOk \in BOOLEAN :
        /\ chat \in Groups \cup {u}
        /\ user_shared_no_flow(u, chat, ansOk, delOk)

\* on_user_shared inside a flow, up to `await is_chat_member(...)`
on_user_shared(u, chat, shared) ==
    LET state == flow_of_sender(u)
        h == Handler("on_user_shared", u, chat, state.chat_id, shared)
    IN
    /\ state.chat_id # 0
    /\ h \notin handlers
    /\ handlers' = handlers \cup {h}
    /\ last' = Nothing
    /\ UNCHANGED <<db, ASSIGN_STATE, run, now, boot>>

OnUserShared ==
    \E u \in Users, chat \in Chats, shared \in Users :
        /\ chat \in Groups \cup {u}
        /\ Cardinality(handlers) < MaxInflight
        /\ on_user_shared(u, chat, shared)

\* on_user_shared, is_chat_member returned False: both the warning and the
\* deletion are guarded
user_shared_not_member(h, status, warnOk, delOk) ==
    /\ h.h = "on_user_shared"
    /\ ~is_chat_member(status)
    /\ handlers' = handlers \ {h}
    /\ last' = [Eff("on_user_shared", h.u, h.chat, "not_member", "return",
                    <<Msg(h.u, "not_member", warnOk)>>, Outcome(delOk))
                  EXCEPT !.status = status]
    /\ UNCHANGED <<db, ASSIGN_STATE, run, now, boot>>

UserSharedNotMember ==
    \E h \in handlers, status \in Statuses, warnOk \in BOOLEAN, delOk \in BOOLEAN :
        user_shared_not_member(h, status, warnOk, delOk)

\* on_user_shared, is_chat_member returned True: `state` is the dict read
\* before the await, so the write reaches ASSIGN_STATE only while that dict is
\* still the sender's entry; the prompt is not guarded
user_shared_selected(h, status, promptOk, delOk) ==
    /\ h.h = "on_user_shared"
    /\ is_chat_member(status)
    /\ handlers' = handlers \ {h}
    /\ ASSIGN_STATE' = IF h.live
                       THEN [ASSIGN_STATE EXCEPT ![h.u].assignee_id = h.assignee]
                       ELSE ASSIGN_STATE
    /\ last' = [Eff("on_user_shared", h.u, h.chat, "selected",
                    Exit(IF promptOk THEN 0 ELSE 1),
                    <<Msg(h.chat, "text_prompt", promptOk)>>,
                    IF promptOk THEN Outcome(delOk) ELSE "none")
                  EXCEPT !.status = status]
    /\ UNCHANGED <<db, run, now, boot>>

UserSharedSelected ==
    \E h \in handlers, status \in Statuses, promptOk \in BOOLEAN, delOk \in BOOLEAN :
        user_shared_selected(h, status, promptOk, delOk)

\* ------------------------------------------------------------ task text
\* on_task_text: `if not state or not state.get("assignee_id")`
NoAssignee(state) == state.chat_id = 0 \/ state.assignee_id = 0

\* on_task_text without a selected assignee: the message is deleted, nothing else
task_text_rejected(u, chat, delOk) ==
    /\ NoAssignee(flow_of_sender(u))
    /\ last' = Eff("on_task_text", u, chat, "no_assignee", "return", << >>, Outcome(delOk))
    /\ UNCHANGED <<db, ASSIGN_STATE, handlers, run, now, boot>>

TaskTextRejected ==
    \E u \in Users, chat \in Chats, delOk \in BOOLEAN :
        /\ chat \in Groups \cup {u}
        /\ task_text_rejected(u, chat, delOk)

\* on_task_text on a message without text: m.text is None and m.text.strip() raises
task_text_no_text(u, chat) ==
    /\ ~NoAssignee(flow_of_sender(u))
    /\ last' = Eff("on_task_text", u, chat, "no_text", "raise", << >>, "none")
    /\ UNCHANGED <<db, ASSIGN_STATE, handlers, run, now, boot>>

TaskTextNoText ==
    \E u \in Users, chat \in Chats :
        /\ chat \in Groups \cup {u}
        /\ task_text_no_text(u, chat)

\* on_task_text up to its first send.  Nothing between the state check and
\* add_task awaits; add_task appends to db and then calls save_db
on_task_text(u, chat, text) ==
    LET state == flow_of_sender(u)
        h == Handler("task_text_notify", u, chat, state.chat_id, state.assignee_id)
    IN
    /\ ~NoAssignee(state)
    /\ text # NoText
    /\ h \notin handlers
    /\ db' = add_task(db, state.assignee_id, strip(text), u, state.chat_id, now)
    /\ handlers' = handlers \cup {h}
    /\ last' = [Eff("on_task_text", u, chat, "stored", "await", << >>, "none")
                  EXCEPT !.assignee = state.assignee_id, !.text = text,
                         !.before = Len(TasksOf(db, state.assignee_id))]
    /\ UNCHANGED <<ASSIGN_STATE, run, now, boot>>

OnTaskText ==
    \E u \in Users, chat \in Chats, text \in Texts :
        /\ chat \in Groups \cup {u}
        /\ TotalTasks(db) < MaxTasks
        /\ Cardinality(handlers) < MaxInflight
        /\ on_task_text(u, chat, text)

\* on_task_text when save_db raises inside add_task: the append has been made
task_text_save_failed(u, chat, text) ==
    LET state == flow_of_sender(u)
    IN
    /\ ~NoAssignee(state)
    /\ text # NoText
    /\ db' = add_task(db, state.assignee_id, strip(text), u, state.chat_id, now)
    /\ last' = [Eff("on_task_text", u, chat, "save_failed", "raise", << >>, "none")
                  EXCEPT !.assignee = state.assignee_id, !.text = text,
                         !.before = Len(TasksOf(db, state.assignee_id))]
    /\ UNCHANGED <<ASSIGN_STATE, handlers, run, now, boot>>

TaskTextSaveFailed ==
    \E u \in Users, chat \in Chats, text \in Texts :
        /\ chat \in Groups \cup {u}
        /\ TotalTasks(db) < MaxTasks
        /\ task_text_save_failed(u, chat, text)

\* the sends with the assigner's confirmation made first
assigner_first(h, noticeOk, confirmOk, confOk) ==
    <<Msg(h.u, "assigned", confirmOk),
      Msg(h.assignee, "new_task", noticeOk),
      Msg(h.target, "done_notice", confOk)>>

\* on_task_text, "DM assignee and creator" and the confirmation in the chat:
\* the sends in program order
notifications(h, noticeOk, confirmOk, confOk) ==
    <<Msg(h.assignee, "new_task", noticeOk),
      Msg(h.u, "assigned", confirmOk),
      Msg(h.target, "done_notice", confOk)>>

\* on_task_text: the two guarded private sends, then the unguarded
\* confirmation in the target chat; after it the handler sleeps
task_text_notify(h, noticeOk, confirmOk, confOk) ==
    /\ h.h = "task_text_notify"
    /\ handlers' = (handlers \ {h}) \cup
                      (IF confOk THEN {[h EXCEPT !.h = "task_text_sleep"]} ELSE {})
    /\ last' = [Eff("on_task_text", h.u, h.chat, "notified",
                    IF confOk THEN "await" ELSE "raise",
                    notifications(h, noticeOk, confirmOk, confOk), "none")
                  EXCEPT !.assignee = h.assignee]
    /\ UNCHANGED <<db, ASSIGN_STATE, run, now, boot>>

TaskTextNotify ==
    \E h \in handlers, noticeOk \in BOOLEAN, confirmOk \in BOOLEAN, confOk \in BOOLEAN :
        task_text_notify(h, noticeOk, confirmOk, confOk)

\* m.delete() outside any try: its failure ends the handler
no_try(ok) == ok

\* `try: await m.delete() except Exception: pass`: the handler goes on
\* whatever the outcome
try_except_pass(ok) == TRUE

\* on_task_text after the sleep: conf.delete(), m.delete() and the keyboard
\* removal, each guarded, then the pop of the sender's entry
task_text_finish(h, delOk, rkOk) ==
    LET goes == try_except_pass(delOk)
    IN
    /\ h.h = "task_text_sleep"
    /\ handlers' = IF goes THEN Detach(handlers \ {h}, h.u) ELSE handlers \ {h}
    /\ ASSIGN_STATE' = IF goes THEN [ASSIGN_STATE EXCEPT ![h.u] = NoFlow]
                       ELSE ASSIGN_STATE
    /\ last' = [Eff("on_task_text", h.u, h.chat, "finished",
                    IF goes THEN "return" ELSE "raise",
                    IF goes THEN <<Msg(h.target, "keyboard_removal", rkOk)>> ELSE << >>,
                    Outcome(delOk))
                  EXCEPT !.assignee = h.assignee]
    /\ UNCHANGED <<db, run, now, boot>>

TaskTextFinish ==
    \E h \in handlers, delOk \in BOOLEAN, rkOk \in BOOLEAN : task_text_finish(h, delOk, rkOk)

\* ------------------------------------------------------------ reminders
\* send_daily_reminders: `if now.weekday() >= 5: return`
weekend(t) == weekday(t) >= 5

\* the numbered lines of a digest
Render(tasks) == [i \in 1..Len(tasks) |-> tasks[i].text]

\* the loop up to its next send: users without an open task are skipped
RECURSIVE SkipIdle(_, _)
SkipIdle(d, uids) ==
    IF uids = << >> THEN << >>
    ELSE IF get_active_tasks(d, Head(uids)) = << >> THEN SkipIdle(d, Tail(uids))
    ELSE uids

\* the loop with the send's failure left to end it
halt_on_failure(ok, rest) == IF ok THEN rest ELSE << >>

\* `try: await bot.send_message(uid_int, text) except Exception: pass`: the
\* users left to visit after a send
after_send(ok, rest) == rest

\* list(db.get("users", {}).keys())
Keys(d) == [i \in 1..Len(d.users) |-> d.users[i].id]

RunEnd(r, path) ==
    [Nothing EXCEPT !.h = "send_daily_reminders", !.path = path, !.exit = "return",
                    !.log = r.log, !.at = r.at, !.open = r.open]

\* the job with `uids` left to visit: suspended in its next send, or returned
Advance(r, uids) ==
    LET left == SkipIdle(db, uids)
    IN IF left = << >>
       THEN /\ run' = NoRun
            /\ last' = RunEnd(r, "weekday")
       ELSE /\ run' = [r EXCEPT !.active = TRUE, !.cur = Head(left),
                                !.lines = Render(get_active_tasks(db, Head(left))),
                                !.rest = Tail(left)]
            /\ last' = Nothing

\* send_daily_reminders from its call to its first send.  `open` remembers
\* the store at the call
ReminderStart ==
    /\ ~run.active
    /\ UNCHANGED <<db, ASSIGN_STATE, handlers, now, boot>>
    /\ LET r == [NoRun EXCEPT !.at = now, !.open = db.users]
       IN IF weekend(now)
          THEN /\ run' = NoRun
               /\ last' = RunEnd(r, "weekend")
          ELSE Advance(r, Keys(db))

\* send_daily_reminders from the outcome of one send to the next send
ReminderResume ==
    \E ok \in BOOLEAN :
        /\ run.active
        /\ UNCHANGED <<db, ASSIGN_STATE, handlers, now, boot>>
        /\ Advance([run EXCEPT !.log = Append(@, [to |-> run.cur, lines |-> run.lines,
                                                  ok |-> ok])],
                   after_send(ok, run.rest))

Tick ==
    /\ now < boot + MaxTicks
    /\ now' = now + 1
    /\ last' = Nothing
    /\ UNCHANGED <<db, ASSIGN_STATE, handlers, run, boot>>

\* -------------------------------------------------------- specifications
\* Spec: the handlers of the assignment flow, from start-up
Init ==
    /\ db \in load_db(MaxTasks)
    /\ ASSIGN_STATE = [u \in Users |-> NoFlow]
    /\ handlers = {}
    /\ run = NoRun
    /\ boot = 0 * 24 + 10
    /\ now = boot
    /\ last = Nothing

Next ==
    \/ CbAssignRejected
    \/ CbAssign
    \/ CbSetChat
    \/ UserSharedNoFlow
    \/ OnUserShared
    \/ UserSharedNotMember
    \/ UserSharedSelected
    \/ TaskTextRejected
    \/ TaskTextNoText
    \/ OnTaskText
    \/ TaskTextSaveFailed
    \/ TaskTextNotify
    \/ TaskTextFinish

Spec == Init /\ [][Next]_vars

\* SpecRemind: the reminder job beside the handler that writes tasks, from
\* any start-up instant, with the pending flow an earlier cb_assign and
\* on_user_shared of one user may have left
ReadyFlows ==
    {[u \in Users |-> IF u = w THEN f ELSE NoFlow] :
        w \in Users,
        f \in {NoFlow} \cup {[chat_id |-> g, assignee_id |-> a] : g \in Groups, a \in Users}}

InitRemind ==
    /\ db \in load_db(MaxDigest)
    /\ ASSIGN_STATE \in ReadyFlows
    /\ handlers = {}
    /\ run = NoRun
    /\ boot \in BootHours
    /\ now = boot
    /\ last = Nothing

RemindTaskText ==
    \E u \in Users, chat \in Groups :
        /\ TotalTasks(db) < MaxDigest
        /\ Cardinality(handlers) < MaxInflight
        /\ on_task_text(u, chat, <<"a", " ">>)

RemindSaveFailed ==
    \E u \in Users, chat \in Groups :
        /\ TotalTasks(db) < MaxDigest
        /\ task_text_save_failed(u, chat, <<"a", " ">>)

NextRemind ==
    \/ ReminderStart
    \/ ReminderResume
    \/ Tick
    \/ RemindTaskText
    \/ RemindSaveFailed
    \/ TaskTextNotify
    \/ TaskTextFinish

SpecRemind == InitRemind /\ [][NextRemind]_vars

\* SpecRoster: the handlers that keep the per-chat roster
\* on_chat_member: `user` is event.from_user, the user who made the change;
\* subject is event.new_chat_member.user.  save_db follows the update
\* (saveOk false: it raises)
MemberStatuses == Statuses \ {"error"}

on_chat_member(chat, from_user, subject, status, saveOk) ==
    LET user == from_user
    IN
    /\ db' = IF chat \notin Groups THEN db
             ELSE IF status \in {"kicked", "left"}
                  THEN [db EXCEPT !.groups[chat] = @ \ {user}]
                  ELSE [db EXCEPT !.groups[chat] = @ \cup {user}]
    /\ last' = [Eff("on_chat_member", from_user, chat,
                    IF chat \in Groups THEN status ELSE "ignored",
                    IF chat \in Groups /\ ~saveOk THEN "raise" ELSE "return",
                    << >>, "none")
                  EXCEPT !.subject = subject]
    /\ UNCHANGED <<ASSIGN_STATE, handlers, run, now, boot>>

OnChatMember ==
    \E chat \in Chats, from_user \in Users, subject \in Users,
       status \in MemberStatuses, saveOk \in BOOLEAN :
        on_chat_member(chat, from_user, subject, status, saveOk)

\* on_group_message_learn: the sender of any other group message is entered
on_group_message_learn(chat, u, saveOk) ==
    /\ db' = [db EXCEPT !.groups[chat] = @ \cup {u}]
    /\ last' = Eff("on_group_message_learn", u, chat, "learned",
                   IF saveOk THEN "return" ELSE "raise", << >>, "none")
    /\ UNCHANGED <<ASSIGN_STATE, handlers, run, now, boot>>

OnGroupMessageLearn ==
    \E chat \in Groups, u \in Users, saveOk \in BOOLEAN :
        on_group_message_learn(chat, u, saveOk)

InitRoster ==
    /\ db \in {[d EXCEPT !.groups = r] : d \in load_db(0), r \in Rosters}
    /\ ASSIGN_STATE = [u \in Users |-> NoFlow]
    /\ handlers = {}
    /\ run = NoRun
    /\ boot = 0 * 24 + 10
    /\ now = boot
    /\ last = Nothing

NextRoster ==
    \/ OnChatMember
    \/ OnGroupMessageLearn

SpecRoster == InitRoster /\ [][NextRoster]_vars

\* SpecFlows: the assignment flows of the users in a group, from the press of
\* the button to the end of on_task_text, interleaved at the handlers'
\* awaits; a user's next message arrives when the handler of that user's
\* earlier message has ended (a press of the button arrives at any time)
FlowText(u) == [k \in 1..u |-> "a"] \o <<" ">>

Busy(u) == \E h \in handlers : h.u = u

Wrote(u) ==
    \E i \in 1..Len(db.users) :
        \E k \in 1..Len(db.users[i].tasks) : db.users[i].tasks[k].by = u

InitFlows ==
    /\ db \in load_db(0)
    /\ ASSIGN_STATE = [u \in Users |-> NoFlow]
    /\ handlers = {}
    /\ run = NoRun
    /\ boot = 0 * 24 + 10
    /\ now = boot
    /\ last = Nothing

FlowsAssign ==
    \E u \in Users, chat \in Groups, fail \in 0..2 : cb_assign(u, chat, fail)

FlowsUserShared ==
    \E u \in Users, chat \in Groups, shared \in Users :
        /\ ~Busy(u)
        /\ on_user_shared(u, chat, shared)

FlowsTaskText ==
    \E u \in Users, chat \in Groups :
        /\ ~Busy(u)
        /\ TotalTasks(db) < MaxFlowTasks
        /\ on_task_text(u, chat, FlowText(u))

NextFlows ==
    \/ FlowsAssign
    \/ FlowsUserShared
    \/ UserSharedNotMember
    \/ UserSharedSelected
    \/ FlowsTaskText
    \/ TaskTextNotify
    \/ TaskTextFinish

SpecFlows == InitFlows /\ [][NextFlows]_vars

\* SpecReplies: as SpecFlows, and a user's next message may also arrive while
\* one handler of an earlier message of that user is asleep before its last
\* step
Overlapping(u) ==
    \/ \E h \in handlers : h.u = u /\ h.h # "task_text_sleep"
    \/ \E h1, h2 \in handlers : h1.u = u /\ h2.u = u /\ h1 # h2

RepliesUserShared ==
    \E u \in Users, chat \in Groups, shared \in Users :
        /\ ~Overlapping(u)
        /\ on_user_shared(u, chat, shared)

RepliesTaskText ==
    \E u \in Users, chat \in Groups :
        /\ ~Overlapping(u)
        /\ TotalTasks(db) < MaxFlowTasks
        /\ on_task_text(u, chat, FlowText(u))

NextReplies ==
    \/ FlowsAssign
    \/ RepliesUserShared
    \/ UserSharedNotMember
    \/ UserSharedSelected
    \/ RepliesTaskText
    \/ TaskTextNotify
    \/ TaskTextFinish

SpecReplies == InitFlows /\ [][NextReplies]_vars

\* ================================================================ claims
AllTasks ==
    UNION {{db.users[i].tasks[k] : k \in 1..Len(db.users[i].tasks)} : i \in 1..Len(db.users)}

\* the open tasks of uid in the ordered user table us, by the schema's flag
OpenTasks(us, uid) ==
    LET mine == {i \in 1..Len(us) : us[i].id = uid}
    IN IF mine = {} THEN << >>
       ELSE SelectSeq(us[CHOOSE i \in mine : TRUE].tasks, LAMBDA t : t.done = FALSE)

TextsOf(tasks) == [i \in 1..Len(tasks) |-> tasks[i].text]

\* C1: every task in the store has a non-empty text, and a step that wrote a
\* task did so for a sender whose pending flow had an assignee selected.
C1_TaskNeedsAssigneeAndText ==
    /\ \A t \in AllTasks : t.text # << >>
    /\ last.path \in {"stored", "save_failed"} =>
          /\ last.assignee # 0
          /\ ASSIGN_STATE[last.u].assignee_id = last.assignee

\* C2: when the new-task notice to the assignee fails, exactly one private
\* message goes to the assigner, it reports the failed delivery, and the
\* success confirmation is not sent.
C2_UnreachableAssigneeReported ==
    (last.path = "notified" /\ ~last.sent[1].ok) =>
        LET toAssigner == {i \in 2..Len(last.sent) : last.sent[i].to = last.u}
        IN /\ Cardinality(toAssigner) = 1
           /\ \A i \in toAssigner : last.sent[i].kind = "undelivered"
           /\ \A i \in 1..Len(last.sent) : last.sent[i].kind # "assigned"

\* C3: when save_db fails inside add_task the requester is told that the
\* action did not complete, nothing is sent as for a success, and the task is
\* not in the in-memory store (nor in get_active_tasks) afterwards.
C3_SaveFailureLeavesNoTask ==
    last.path = "save_failed" =>
        /\ last.exit = "raise"
        /\ \A i \in 1..Len(last.sent) : last.sent[i].kind \notin {"new_task", "assigned"}
        /\ \E i \in 1..Len(last.sent) :
              last.sent[i].to = last.u /\ last.sent[i].kind = "not_completed"
        /\ Len(TasksOf(db, last.assignee)) = last.before

\* C4: when a picker selection or a task-text reply posted in a group has
\* been handled (the handler returned or raised), the deletion of that
\* message has been requested.
C4_GroupTriggerDeleted ==
    (/\ last.h \in {"on_user_shared", "on_task_text"}
     /\ last.chat \in Groups
     /\ last.exit \in {"return", "raise"}) => last.del # "none"

ErrorKinds == {"out_of_context", "not_member", "choose_chat_alert", "choose_chat_menu"}

\* C5: no message sent to a group chat carries failure or rejection text.
C5_NoErrorTextInGroup ==
    \A i \in 1..Len(last.sent) :
        last.sent[i].to \in Groups => last.sent[i].kind \notin ErrorKinds

\* C6: a reminder run called on a Saturday or Sunday of the Stockholm
\* calendar sends no digest and is not left suspended in a send.
C6_WeekendNoDigest ==
    LET stockholmDay(t) == ((t + 1) \div 24) % 7
    IN /\ run.active => stockholmDay(run.at) \notin {5, 6}
       /\ (last.h = "send_daily_reminders" /\ stockholmDay(last.at) \in {5, 6}) =>
             last.log = << >>

C6_Witness ==
    /\ last.h = "send_daily_reminders"
    /\ last.path = "weekend"
    /\ (last.at \div 24) % 7 = 4
    /\ \E u \in Users : OpenTasks(db.users, u) # << >>

\* C7: a finished weekday run has attempted exactly one digest for every
\* assignee that had an open task when it was called, none for an identity
\* without an open task, and every digest lists the open tasks stored for its
\* assignee, in the store's order: all those open at the call, and of those
\* written during the run the ones stored before the digest was rendered.
C7_OneDigestPerOpenAssignee ==
    (last.h = "send_daily_reminders" /\ last.path = "weekday") =>
        LET log == last.log
            to(u) == {i \in 1..Len(log) : log[i].to = u}
        IN \A u \in Users :
              LET atCall == OpenTasks(last.open, u)
                  atEnd == OpenTasks(db.users, u)
              IN /\ atCall # << >> => Cardinality(to(u)) = 1
                 /\ atEnd = << >> => to(u) = {}
                 /\ Cardinality(to(u)) <= 1
                 /\ \A i \in to(u) :
                       \E k \in Len(atCall)..Len(atEnd) :
                           /\ k >= 1
                           /\ log[i].lines = TextsOf(SubSeq(atEnd, 1, k))

C7_Witness ==
    /\ last.h = "send_daily_reminders"
    /\ last.path = "weekday"
    /\ Len(last.log) = 1
    /\ \E u \in Users :
          /\ u # last.log[1].to
          /\ TasksOf(db, u) # << >>
          /\ OpenTasks(db.users, u) = << >>

\* C8: the open tasks listed for an assignee are ordered newest first: a
\* task created later stands before every task created earlier.
C8_NewestFirst ==
    \A u \in Users :
        LET l == get_active_tasks(db, u)
        IN \A i, j \in 1..Len(l) : i < j => l[i].ts >= l[j].ts

\* C9: in a finished run, a failed digest has not kept any other assignee
\* with an open task from being attempted, and nobody was attempted twice.
C9_FailureDoesNotHaltRun ==
    (last.h = "send_daily_reminders" /\ last.path = "weekday") =>
        LET log == last.log
        IN /\ \A i \in 1..Len(log) :
                 ~log[i].ok =>
                    \A u \in Users \ {log[i].to} :
                        OpenTasks(last.open, u) # << >> =>
                            \E j \in 1..Len(log) : log[j].to = u
           /\ \A i, j \in 1..Len(log) : i # j => log[i].to # log[j].to

C9_Witness ==
    /\ last.h = "send_daily_reminders"
    /\ Len(last.log) = 2
    /\ ~last.log[1].ok

\* C10 as stated: a press of the assign button in a private chat never
\* starts a flow.
C10_PrivateAssignRejected ==
    (last.h = "cb_assign" /\ last.chat \notin Groups) => last.path = "rejected"

\* C10 as amended: a press of the assign button in a private chat by a user
\* who has not chosen a working chat changes no pending flow and no store
\* entry, and sends that user nothing but the request to choose a chat.
C10_PrivateAssignNeedsChat ==
    [][(/\ last'.h = "cb_assign"
        /\ last'.chat \notin Groups
        /\ db.user_prefs[last'.u] = 0)
       => /\ ASSIGN_STATE' = ASSIGN_STATE
          /\ db' = db
          /\ \A i \in 1..Len(last'.sent) :
                /\ last'.sent[i].to = last'.u
                /\ last'.sent[i].kind \in {"choose_chat_alert", "choose_chat_menu"}]_vars

C10_Witness ==
    /\ last.h = "cb_assign"
    /\ last.chat \notin Groups
    /\ last.path = "rejected"
    /\ Len(last.sent) = 2
    /\ ASSIGN_STATE[last.u].assignee_id # 0

\* C11: a task text from a user without a selected assignee leaves the store
\* as it was and sends that user exactly one private message.
C11_RejectedTextReported ==
    last.path = "no_assignee" =>
        Cardinality({i \in 1..Len(last.sent) : last.sent[i].to = last.u}) = 1

\* C12: every step keeps every stored task in its place under its assignee,
\* with its text, assigner, origin chat and timestamp, and never turns a done
\* flag from true to false.
C12_TasksKept ==
    [][\A i \in 1..Len(db.users) :
          /\ i <= Len(db'.users)
          /\ db'.users[i].id = db.users[i].id
          /\ Len(db'.users[i].tasks) >= Len(db.users[i].tasks)
          /\ \A k \in 1..Len(db.users[i].tasks) :
                LET old == db.users[i].tasks[k]
                    new == db'.users[i].tasks[k]
                IN /\ new.text = old.text
                   /\ new.by = old.by
                   /\ new.chat = old.chat
                   /\ new.ts = old.ts
                   /\ old.done => new.done]_vars

C12_Witness ==
    /\ last.path = "stored"
    /\ last.before >= 1
    /\ Len(TasksOf(db, last.assignee)) = last.before + 1
    /\ TasksOf(db, last.assignee)[1].done

\* t is raw without its leading and trailing spaces
Trimmed(raw, t) ==
    \E i \in 1..(Len(raw) + 1), j \in 0..Len(raw) :
        /\ t = SubSeq(raw, i, j)
        /\ \A k \in 1..Len(raw) : (k < i \/ k > j) => raw[k] = " "
        /\ t # << >> => (t[1] # " " /\ t[Len(t)] # " ")

\* C13: a step that adds a task makes the assignee's open listing the one
\* before it plus one last entry, whose text is the trimmed input, whose
\* assigner and origin chat are the sender and the flow's target chat and
\* which is not done; every other assignee's open listing is unchanged.
C13_AddThenList ==
    [][last'.path = "stored" =>
          LET a == last'.assignee
              before == get_active_tasks(db, a)
              after == get_active_tasks(db', a)
          IN /\ Len(after) = Len(before) + 1
             /\ SubSeq(after, 1, Len(before)) = before
             /\ Trimmed(last'.text, after[Len(after)].text)
             /\ after[Len(after)].by = last'.u
             /\ after[Len(after)].chat = ASSIGN_STATE[last'.u].chat_id
             /\ after[Len(after)].done = FALSE
             /\ \A v \in Users \ {a} :
                   get_active_tasks(db', v) = get_active_tasks(db, v)]_vars

C13_Witness ==
    /\ last.path = "stored"
    /\ last.before = 1
    /\ TasksOf(db, last.assignee)[1].done
    /\ Len(get_active_tasks(db, last.assignee)) = 1
    /\ get_active_tasks(db, last.assignee)[1].text # last.text

\* C14: when the handler of an accepted task text has finished, whether the
\* deletion of the message succeeded or failed, it returned, it made the one
\* send that follows the deletion, the task it wrote is in the store and the
\* sender's pending flow is cleared.
C14_DeleteFailureSwallowed ==
    last.path = "finished" =>
        /\ last.del \in {"ok", "failed"}
        /\ last.exit = "return"
        /\ Len(last.sent) = 1
        /\ last.sent[1].kind = "keyboard_removal"
        /\ ASSIGN_STATE[last.u] = NoFlow
        /\ \E k \in 1..Len(TasksOf(db, last.assignee)) :
              TasksOf(db, last.assignee)[k].by = last.u

C14_Witness ==
    /\ last.path = "finished"
    /\ last.del = "failed"
    /\ last.sent[1].ok

\* C15: the step that writes a task sends nothing; whenever a notification
\* of an assignment is sent the task is in the store, and the assigner is
\* sent nothing before the new-task notice to the assignee was attempted.
C15_StoreThenAssigneeThenAssigner ==
    LET note(i) == last.sent[i].kind \in {"new_task", "assigned", "done_notice"}
    IN /\ last.path \in {"stored", "save_failed"} => last.sent = << >>
       /\ \A i \in 1..Len(last.sent) :
             note(i) => \E k \in 1..Len(TasksOf(db, last.assignee)) :
                           TasksOf(db, last.assignee)[k].by = last.u
       /\ \A j \in 1..Len(last.sent) :
             last.sent[j].kind = "assigned" =>
                /\ last.sent[j].to = last.u
                /\ \E i \in 1..(j - 1) :
                      /\ last.sent[i].kind = "new_task"
                      /\ last.sent[i].to = last.assignee

C15_Witness ==
    /\ last.path = "notified"
    /\ last.assignee # last.u
    /\ ~last.sent[1].ok
    /\ last.sent[2].ok

\* C16: a user's pending flow changes only in a step of a handler of that
\* user's own event, and a task text of user u is stored under the assignee
\* of u's flow with u as assigner, the target chat of u's flow as origin and
\* u's trimmed text, whatever the other user's handlers are doing.
C16_FlowsIndependent ==
    [][/\ \A v \in Users : ASSIGN_STATE'[v] # ASSIGN_STATE[v] => last'.u = v
       /\ last'.path = "stored" =>
             LET own == ASSIGN_STATE[last'.u]
                 was == TasksOf(db, own.assignee_id)
                 is == TasksOf(db', own.assignee_id)
             IN /\ own.assignee_id # 0
                /\ Len(is) = Len(was) + 1
                /\ is[Len(is)].by = last'.u
                /\ is[Len(is)].chat = own.chat_id
                /\ Trimmed(last'.text, is[Len(is)].text)
                /\ \A a \in Users \ {own.assignee_id} : TasksOf(db', a) = TasksOf(db, a)]_vars

C16_Witness ==
    /\ last.path = "stored"
    /\ \A u \in Users : Wrote(u)
    /\ \E h \in handlers : h.u # last.u /\ h.h = "task_text_notify"
    /\ \A u, v \in Users :
          u # v => ASSIGN_STATE[u].assignee_id # ASSIGN_STATE[v].assignee_id

\* C17: a chat-member update in a group takes the user whose status it
\* reports off the chat's roster when the new status is left or kicked and
\* enters that user otherwise, and leaves every other user's entry as it was.
C17_RosterTracksSubject ==
    [][(last'.h = "on_chat_member" /\ last'.chat \in Groups) =>
          LET X == last'.subject
              was == db.groups[last'.chat]
              is == db'.groups[last'.chat]
          IN /\ last'.path \in {"left", "kicked"} => X \notin is
             /\ last'.path \notin {"left", "kicked"} => X \in is
             /\ \A v \in Users \ {X} : (v \in is) <=> (v \in was)]_vars

\* C18: a task text of user u writes no task while the handler of an earlier
\* task text of u, written from the same pending flow, is still suspended.
C18_OneTaskPerFlow ==
    [][last'.path = "stored" =>
          ~\E h \in handlers :
              /\ h.u = last'.u
              /\ h.h \in {"task_text_notify", "task_text_sleep"}
              /\ h.live]_vars

\* C19: when the handler of a task text of user u ends after u has started a
\* newer flow, u's pending flow is the same after the handler's last step as
\* before it.
C19_NewerFlowSurvives ==
    [][\A h \in handlers :
          (/\ h.h = "task_text_sleep"
           /\ ~h.live
           /\ h \notin handlers'
           /\ last'.path = "finished"
           /\ last'.u = h.u) => ASSIGN_STATE'[h.u] = ASSIGN_STATE[h.u]]_vars

\* C20: a pending flow's assignee is set only by a picker selection of that
\* flow's user whose lookup reported creator, administrator or member; a
\* selection with any other status or a failed lookup changes no flow and
\* writes no task; a press of assign that starts a flow leaves its assignee
\* unset; and a task is written only under the assignee of the sender's flow.
C20_AssigneeIsConfirmedMember ==
    [][/\ \A u \in Users :
             (/\ ASSIGN_STATE'[u].assignee_id # ASSIGN_STATE[u].assignee_id
              /\ ASSIGN_STATE'[u].assignee_id # 0) =>
                 /\ last'.h = "on_user_shared"
                 /\ last'.u = u
                 /\ last'.status \in {"creator", "administrator", "member"}
                 /\ ASSIGN_STATE'[u].chat_id = ASSIGN_STATE[u].chat_id
       /\ (last'.h = "on_user_shared"
            /\ last'.status \notin {"creator", "administrator", "member"}) =>
                 /\ ASSIGN_STATE' = ASSIGN_STATE
                 /\ db' = db
       /\ (last'.h = "cb_assign" /\ last'.path = "started") =>
                 ASSIGN_STATE'[last'.u].assignee_id = 0
       /\ db'.users # db.users =>
                 /\ ASSIGN_STATE[last'.u].assignee_id # 0
                 /\ \A a \in Users \ {ASSIGN_STATE[last'.u].assignee_id} :
                       TasksOf(db', a) = TasksOf(db, a)]_vars

C20_Witness ==
    /\ last.h = "on_user_shared"
    /\ last.path = "not_member"
    /\ last.status \in {"error", "left"}
    /\ ASSIGN_STATE[last.u].chat_id # 0
    /\ ASSIGN_STATE[last.u].assignee_id = 0
    /\ \E v \in Users \ {last.u} : ASSIGN_STATE[v].assignee_id # 0

====
